---- MODULE Spec2Model ----
(***************************************************************************)
(* A model of the TorchToONNX function (handler.py, utils.py): the         *)
(* OpenFaaS entry point handle, the orchestration in execute, the two      *)
(* exporter strategies of export_onnx, the single-file normalisation       *)
(* ensure_single_file_onnx, and the argument parser parse_dynamic_args.    *)
(*                                                                         *)
(* Text is a sequence of one-character strings.  A path (a storage key or  *)
(* a local file name) is a sequence of segments, the text between its      *)
(* slashes.  MinIO, torch and onnx are outside the repository: the model   *)
(* gives each of their calls the outcomes the call can have, decided by    *)
(* the storage state, by the deployment (Env) and by the model class that  *)
(* is being exported (TheModule).                                          *)
(***************************************************************************)
EXTENDS Integers, Sequences, FiniteSets, TLC

VARIABLES
    argstr,     \* parse_dynamic_args: the argument string under test
    argres,     \* parse_dynamic_args: its outcome, or NotRun
    env,        \* the deployment: endpoint reachable, torch version, storage policy
    store,      \* the object storage: bucket -> (key -> object)
    event,      \* the event of the current invocation of handle
    run,        \* how many times handle was invoked
    pc,         \* handle's position
    req,        \* handle: the parsed request body
    exc,        \* the exception in flight, or NoExc
    dargs,      \* execute: dynamic_args
    files,      \* the local file system: path -> content
    dirs,       \* the temporary directories that exist
    model,      \* execute: the model object
    result,     \* execute: the value it returned
    resp,       \* the response handle returned
    trace,      \* the steps of execute this invocation ran, with their outcome
    exportLog,  \* the exporters export_onnx tried, with their outcome
    norm,       \* the last call of ensure_single_file_onnx: files before and after
    calls,      \* the storage client calls this invocation made, in order
    store0,     \* the object storage as it was when this invocation began
    prev        \* the previous invocation: its response and its calls

argVars == <<argstr, argres>>
runVars == <<env, store, event, run, pc, req, exc, dargs, files, dirs, model,
             result, resp, trace, exportLog, norm, calls, store0, prev>>
vars == <<argstr, argres, env, store, event, run, pc, req, exc, dargs, files,
          dirs, model, result, resp, trace, exportLog, norm, calls, store0, prev>>

(***************************************************************************)
(* Bounds.                                                                 *)
(***************************************************************************)
\* the longest argument string parse_dynamic_args is checked on
MaxLen == 4
\* the number of times handle is invoked in a row
MaxRuns == 2

(***************************************************************************)
(* Characters.  SUP2 stands for U+00B2, superscript two: str.isdigit() is  *)
(* true of it, and int() and float() reject it.                            *)
(***************************************************************************)
SP == " "
DQ == "\""
BS == "\\"
EQ == "="
DOT == "."
SUP2 == "sup2"
Alphabet == {"a", "1", EQ, DOT, SP, DQ, BS, SUP2}

NotRun == [ok |-> FALSE, exc |-> "NotRun", msg |-> "NotRun"]
Raise(kind, msg) == [ok |-> FALSE, exc |-> kind, msg |-> msg]
EmptyMap == [k \in {} |-> k]

(***************************************************************************)
(* shlex.split(args): posix mode, whitespace_split, no comment characters. *)
(* The state is shlex's own: " " between tokens, "a" in a word, DQ inside  *)
(* double quotes, BS after an escape character (escapedstate tells where   *)
(* to return).  A token is emitted when it is non-empty or was quoted.     *)
(***************************************************************************)
RECURSIVE shlex_read(_, _, _, _, _, _, _)
shlex_read(s, i, state, escapedstate, token, quoted, out) ==
    IF i > Len(s)
    THEN CASE state = DQ -> Raise("ValueError", "No closing quotation")
           [] state = BS -> Raise("ValueError", "No escaped character")
           [] OTHER -> [ok |-> TRUE,
                        val |-> IF token # <<>> \/ quoted
                                THEN Append(out, token) ELSE out]
    ELSE LET c == s[i] IN
         CASE state = SP ->
                IF c = SP THEN shlex_read(s, i + 1, SP, escapedstate, <<>>, FALSE, out)
                ELSE IF c = BS THEN shlex_read(s, i + 1, BS, "a", token, quoted, out)
                ELSE IF c = DQ THEN shlex_read(s, i + 1, DQ, escapedstate, token, quoted, out)
                ELSE shlex_read(s, i + 1, "a", escapedstate, <<c>>, quoted, out)
           [] state = DQ ->
                IF c = DQ THEN shlex_read(s, i + 1, "a", escapedstate, token, TRUE, out)
                ELSE IF c = BS THEN shlex_read(s, i + 1, BS, DQ, token, TRUE, out)
                ELSE shlex_read(s, i + 1, DQ, escapedstate, Append(token, c), TRUE, out)
           [] state = BS ->
                LET kept == IF escapedstate = DQ /\ c # BS /\ c # DQ
                            THEN Append(token, BS) ELSE token
                IN shlex_read(s, i + 1, escapedstate, escapedstate,
                              Append(kept, c), quoted, out)
           [] OTHER ->
                IF c = SP
                THEN IF token # <<>> \/ quoted
                     THEN shlex_read(s, i + 1, SP, escapedstate, <<>>, FALSE,
                                     Append(out, token))
                     ELSE shlex_read(s, i + 1, SP, escapedstate, <<>>, FALSE, out)
                ELSE IF c = DQ THEN shlex_read(s, i + 1, DQ, escapedstate, token, quoted, out)
                ELSE IF c = BS THEN shlex_read(s, i + 1, BS, "a", token, quoted, out)
                ELSE shlex_read(s, i + 1, "a", escapedstate, Append(token, c), quoted, out)

shlex_split(s) == shlex_read(s, 1, SP, SP, <<>>, FALSE, <<>>)

(***************************************************************************)
(* str.strip(), "=" in arg, arg.split("=", 1).                             *)
(***************************************************************************)
RECURSIVE lstrip(_)
lstrip(t) == IF t # <<>> /\ Head(t) = SP THEN lstrip(Tail(t)) ELSE t

RECURSIVE rstrip(_)
rstrip(t) ==
    IF t # <<>> /\ t[Len(t)] = SP THEN rstrip(SubSeq(t, 1, Len(t) - 1)) ELSE t

strip(t) == rstrip(lstrip(t))

Contains(t, c) == \E i \in 1..Len(t) : t[i] = c

FirstIndex(t, c) == CHOOSE i \in 1..Len(t) : t[i] = c /\ \A j \in 1..(i - 1) : t[j] # c

split_once(t) ==
    LET i == FirstIndex(t, EQ)
    IN [key |-> SubSeq(t, 1, i - 1), value |-> SubSeq(t, i + 1, Len(t))]

(***************************************************************************)
(* str.isdigit(), int() and float() on the characters of Alphabet.         *)
(***************************************************************************)
DecimalDigits == {"1"}
DigitChars == DecimalDigits \cup {SUP2}

isdigit(v) == v # <<>> /\ \A i \in 1..Len(v) : v[i] \in DigitChars

DigitValue(c) == 1

RECURSIVE DecimalValue(_)
DecimalValue(v) ==
    IF v = <<>> THEN 0
    ELSE 10 * DecimalValue(SubSeq(v, 1, Len(v) - 1)) + DigitValue(v[Len(v)])

int_of(v) ==
    IF strip(v) # <<>> /\ \A i \in 1..Len(strip(v)) : strip(v)[i] \in DecimalDigits
    THEN [ok |-> TRUE, val |-> [type |-> "int", value |-> DecimalValue(strip(v))]]
    ELSE Raise("ValueError", "invalid literal for int()")

\* a decimal literal: digits with at most one point and at least one digit;
\* the value is digits / 10^places
float_of(v) ==
    LET w == strip(v)
        points == {i \in 1..Len(w) : w[i] = DOT}
        digits == SelectSeq(w, LAMBDA c : c # DOT)
    IN IF /\ \A i \in 1..Len(w) : w[i] \in DecimalDigits \cup {DOT}
          /\ Cardinality(points) <= 1
          /\ digits # <<>>
       THEN [ok |-> TRUE,
             val |-> [type |-> "float", digits |-> DecimalValue(digits),
                      places |-> IF points = {} THEN 0
                                 ELSE Len(w) - (CHOOSE i \in points : TRUE)]]
       ELSE Raise("ValueError", "could not convert string to float")

(***************************************************************************)
(* parse_dynamic_args(args).                                               *)
(***************************************************************************)
\* the first loop: the key=value tokens into a dict, later tokens winning
RECURSIVE collect_args(_, _)
collect_args(args_list, parsed_args) ==
    IF args_list = <<>> THEN [ok |-> TRUE, val |-> parsed_args]
    ELSE LET arg == Head(args_list) IN
         IF Contains(arg, EQ)
         THEN LET kv == split_once(arg)
              IN collect_args(Tail(args_list),
                     (strip(kv.key) :> strip(kv.value)) @@ parsed_args)
         ELSE Raise("ValueError", "Invalid argument format")

\* the second loop, for one value
convert_value(value) ==
    IF isdigit(value) THEN int_of(value)
    ELSE IF float_of(value).ok THEN float_of(value)
    ELSE [ok |-> TRUE, val |-> [type |-> "str", value |-> value]]

convert_args(parsed_args) ==
    IF \E k \in DOMAIN parsed_args : ~convert_value(parsed_args[k]).ok
    THEN Raise("ValueError", "invalid literal for int()")
    ELSE [ok |-> TRUE,
          val |-> [k \in DOMAIN parsed_args |-> convert_value(parsed_args[k]).val]]

parse_dynamic_args(args) ==
    LET args_list == shlex_split(args) IN
    IF ~args_list.ok THEN args_list
    ELSE LET parsed_args == collect_args(args_list.val, EmptyMap) IN
         IF ~parsed_args.ok THEN parsed_args
         ELSE convert_args(parsed_args.val)

(***************************************************************************)
(* The specification of parse_dynamic_args alone: every string over        *)
(* Alphabet of at most MaxLen characters, parsed once.                     *)
(***************************************************************************)
Strings(n) == UNION {[1..k -> Alphabet] : k \in 0..n}

ParseArgs ==
    /\ argres = NotRun
    /\ argres' = parse_dynamic_args(argstr)
    /\ UNCHANGED <<argstr, runVars>>

(***************************************************************************)
(* Paths: os.path.basename, os.path.join, and where a path leads.          *)
(***************************************************************************)
basename(p) == p[Len(p)]

\* a path with more than one segment whose first segment is empty starts with a slash
IsAbsolute(p) == Len(p) > 1 /\ p[1] = ""

join(a, b) == IF IsAbsolute(b) THEN b ELSE a \o b

\* the name with a suffix added to its last segment: f"{name}.onnx", path + ".data"
WithSuffix(p, suffix) == [p EXCEPT ![Len(p)] = @ \o suffix]

RECURSIVE Resolve(_, _)
Resolve(p, acc) ==
    IF p = <<>> THEN acc
    ELSE IF Head(p) = ".."
         THEN Resolve(Tail(p), IF acc = <<>> THEN acc ELSE SubSeq(acc, 1, Len(acc) - 1))
         ELSE Resolve(Tail(p), Append(acc, Head(p)))

Inside(p, dir) ==
    LET r == Resolve(p, <<>>)
    IN Len(r) > Len(dir) /\ SubSeq(r, 1, Len(dir)) = dir

\* the directory tempfile.TemporaryDirectory() makes
TmpDir == <<"", "tmp", "tmpdir">>

(***************************************************************************)
(* Configuration (handler.py, lines 19-34).                                *)
(***************************************************************************)
MINIO_ENDPOINT == "172.16.6.62:9000"
MINIO_SECURE == FALSE
BUCKET_MODELS == "models"
BUCKET_WEIGHTS == "weights"
BUCKET_OUTPUT == "onnx"

(***************************************************************************)
(* What the source file of the model defines.  Each class stands for one   *)
(* way torch and onnx can answer: the keyword arguments the constructor    *)
(* takes, whether the weights fit, what each exporter does and what it     *)
(* writes, whether the re-save with inline data succeeds (it fails for a   *)
(* graph above the protobuf size limit) and whether the graph is valid.    *)
(***************************************************************************)
Class(callable, params, required, fits, dynamo, dynamoForm, legacy, legacyForm, inlineable, valid) ==
    [callable |-> callable, params |-> params, required |-> required,
     fits |-> fits, dynamo |-> dynamo, dynamoForm |-> dynamoForm,
     legacy |-> legacy, legacyForm |-> legacyForm,
     inlineable |-> inlineable, valid |-> valid]

TheModule ==
    [Net     |-> Class(TRUE, {<<"a">>}, {}, TRUE, "ok", "inline", "ok", "inline", TRUE, TRUE),
     Wide    |-> Class(TRUE, {<<"a">>}, {<<"a">>}, TRUE, "ok", "external", "ok", "inline", TRUE, TRUE),
     Huge    |-> Class(TRUE, {}, {}, TRUE, "ok", "external", "ok", "external", FALSE, FALSE),
     Old     |-> Class(TRUE, {}, {}, TRUE, "export_fails", "inline", "ok", "inline", TRUE, TRUE),
     SaveErr |-> Class(TRUE, {}, {}, TRUE, "save_fails", "external", "ok", "inline", TRUE, TRUE),
     LegExt  |-> Class(TRUE, {}, {}, TRUE, "export_fails", "inline", "ok", "external", TRUE, TRUE),
     Custom  |-> Class(TRUE, {}, {}, TRUE, "export_fails", "inline", "throws", "inline", TRUE, TRUE),
     Odd     |-> Class(TRUE, {}, {}, TRUE, "ok", "inline", "ok", "inline", TRUE, FALSE),
     Other   |-> Class(TRUE, {}, {}, FALSE, "ok", "inline", "ok", "inline", TRUE, TRUE),
     helper  |-> Class(FALSE, {}, {}, TRUE, "ok", "inline", "ok", "inline", TRUE, TRUE)]

\* a file or a stored object
\* a file or a stored object: what it holds, for a graph its class and whether
\* its tensors are inline or in a companion file, and the invocation that wrote it
File(kind, cls, form, by) == [kind |-> kind, cls |-> cls, form |-> form, by |-> by]
ModuleFile == File("module", "-", "-", 0)
WeightsFile == File("weights", "-", "-", 0)

\* the request fields and their values
KEY_MODEL == <<"m", "net.py">>
KEY_WEIGHTS == <<"w", "net.pth">>
PythonPaths == {KEY_MODEL, <<"m", "ghost.py">>}
WeightsPaths == {KEY_WEIGHTS, <<"w", "ghost.pth">>, <<"w", "net.py">>}
ModelClasses ==
    {<<n>> : n \in DOMAIN TheModule} \cup {<<"Ghost">>, <<"..", "Net">>}
ArgStrings == {<<"a", "=", "1">>, <<"a">>}
InputShapes == {<<3, 8, 8>>, <<3, 0 - 1>>}

RequiredFields == {"python_path", "weights_path", "model_class"}

\* a JSON object: the fields it has and their values (a field it does not have
\* holds a value that is never read)
JsonObject(has, python_path, weights_path, model_class, args, input_shape) ==
    [has |-> has, python_path |-> python_path, weights_path |-> weights_path,
     model_class |-> model_class, args |-> args, input_shape |-> input_shape]

Optional(present, v) == [present |-> present, v |-> v]
ArgOptions == {Optional(FALSE, <<>>)} \cup {Optional(TRUE, a) : a \in ArgStrings}
ShapeOptions == {Optional(FALSE, <<>>)} \cup {Optional(TRUE, sh) : sh \in InputShapes}

\* the objects with every required field, and those lacking some
CompleteObjects ==
    {JsonObject(RequiredFields \cup (IF a.present THEN {"args"} ELSE {})
                               \cup (IF sh.present THEN {"input_shape"} ELSE {}),
                pp, wp, mc, a.v, sh.v) :
        pp \in PythonPaths, wp \in WeightsPaths, mc \in ModelClasses,
        a \in ArgOptions, sh \in ShapeOptions}
IncompleteObjects ==
    {JsonObject(has \cup (IF a.present THEN {"args"} ELSE {}),
                KEY_MODEL, KEY_WEIGHTS, <<"Net">>, a.v, <<>>) :
        has \in (SUBSET RequiredFields) \ {RequiredFields}, a \in ArgOptions}
JsonObjects == CompleteObjects \cup IncompleteObjects
NoObject == JsonObject({}, KEY_MODEL, KEY_WEIGHTS, <<"Net">>, <<>>, <<>>)

\* an event: no body, an empty body, a body that is not JSON, a JSON body that
\* is a list, a JSON object
Body(kind, json) == [kind |-> kind, json |-> json]
Events ==
    {Body(k, NoObject) : k \in {"absent", "empty", "not_json", "json_list"}}
        \cup {Body("json", o) : o \in JsonObjects}

\* req.get(f, default)
Get(r, f, default) == IF f \in r.has THEN r[f] ELSE default

(***************************************************************************)
(* The deployment and the storage.                                         *)
(***************************************************************************)
Envs ==
    [reachable : BOOLEAN,                       \* the endpoint answers
     hasDynamo : BOOLEAN,                       \* torch.onnx has dynamo_export
     policy : {"rw", "no_create", "no_put"}]    \* what the credentials may do

Store(buckets, objects) == [buckets |-> buckets, objects |-> objects]
InputObjects ==
    (<<BUCKET_MODELS, KEY_MODEL>> :> ModuleFile)
        @@ (<<BUCKET_WEIGHTS, KEY_WEIGHTS>> :> WeightsFile)
        @@ (<<BUCKET_WEIGHTS, <<"w", "net.py">>>> :> WeightsFile)
InputBuckets == {BUCKET_MODELS, BUCKET_WEIGHTS}
\* the output bucket: not there yet, empty, or holding an earlier export
InitialStores ==
    {Store(InputBuckets, InputObjects),
     Store(InputBuckets \cup {BUCKET_OUTPUT}, InputObjects),
     Store(InputBuckets \cup {BUCKET_OUTPUT},
           (<<BUCKET_OUTPUT, <<"Net.onnx">>>> :> File("onnx", "Net", "inline", 0))
               @@ InputObjects)}

Call(op, bucket, key) == [op |-> op, bucket |-> bucket, key |-> key]
NoKey == <<"">>

(***************************************************************************)
(* The calls of the libraries, as operators on the files and the storage.  *)
(***************************************************************************)
NoExc == [kind |-> "none", msg |-> "none"]
Exc(kind, msg) == [kind |-> kind, msg |-> msg]

WriteFile(fs, path, content) == (path :> content) @@ fs
RemoveFile(fs, path) == [q \in (DOMAIN fs) \ {path} |-> fs[q]]
Exists(fs, path) == path \in DOMAIN fs

\* client.fget_object(bucket, key, path): the S3 error when the key is absent
HasObject(st, bucket, key) ==
    bucket \in st.buckets /\ <<bucket, key>> \in DOMAIN st.objects

\* onnx.load(path): the graph with its tensors read in (from the companion
\* file for a graph that keeps them there), or a failure.  The loaded
\* tensors no longer carry the external-data location.
onnx_load(fs, path) ==
    IF ~Exists(fs, path) THEN [ok |-> FALSE, external |-> FALSE]
    ELSE IF fs[path].kind # "onnx" THEN [ok |-> FALSE, external |-> FALSE]
    ELSE IF fs[path].form = "external" /\ ~Exists(fs, WithSuffix(path, ".data"))
         THEN [ok |-> FALSE, external |-> FALSE]
    ELSE [ok |-> TRUE, external |-> FALSE]

\* onnx.save(model, path, save_as_external_data=False): the graph with its
\* tensors inline; it raises, before it writes, for a graph too large to
\* serialize as one message
onnx_save_inline(fs, path) ==
    IF TheModule[fs[path].cls].inlineable
    THEN [ok |-> TRUE, files |-> WriteFile(fs, path, [fs[path] EXCEPT !.form = "inline"])]
    ELSE [ok |-> FALSE, files |-> fs]

(***************************************************************************)
(* ensure_single_file_onnx(onnx_path): the body of its try block, and the  *)
(* function with its except clause.                                        *)
(***************************************************************************)
Normalised(fs, raised) == [files |-> fs, raised |-> raised]

normalise_body(fs, onnx_path) ==
    LET external_data_path == WithSuffix(onnx_path, ".data") IN
    IF Exists(fs, external_data_path)
    THEN IF ~onnx_load(fs, onnx_path).ok THEN Normalised(fs, TRUE)
         ELSE LET saved == onnx_save_inline(fs, onnx_path) IN
              IF ~saved.ok THEN Normalised(fs, TRUE)
              ELSE IF Exists(saved.files, external_data_path)
                   THEN Normalised(RemoveFile(saved.files, external_data_path), FALSE)
                   ELSE Normalised(saved.files, FALSE)
    ELSE LET loaded == onnx_load(fs, onnx_path) IN
         IF ~loaded.ok THEN Normalised(fs, TRUE)
         ELSE IF loaded.external
              THEN LET saved == onnx_save_inline(fs, onnx_path) IN
                   Normalised(saved.files, ~saved.ok)
              ELSE Normalised(fs, FALSE)

ensure_single_file_onnx_raising(fs, onnx_path) == normalise_body(fs, onnx_path)

ensure_single_file_onnx(fs, onnx_path) ==
    LET done == normalise_body(fs, onnx_path) IN
    IF done.raised THEN Normalised(done.files, FALSE) ELSE done

\* what an exporter writes: the graph, and for the external form its companion
WriteGraph(fs, path, cls, form, by) ==
    LET graph == WriteFile(fs, path, File("onnx", cls, form, by)) IN
    IF form = "external"
    THEN WriteFile(graph, WithSuffix(path, ".data"), File("data", cls, "-", by))
    ELSE graph

(***************************************************************************)
(* execute's local names (lines 63-72, 119, 128-129).                      *)
(***************************************************************************)
py_local == join(TmpDir, <<basename(req.json.python_path)>>)
weights_local == join(TmpDir, <<basename(req.json.weights_path)>>)
onnx_local == join(TmpDir, WithSuffix(req.json.model_class, ".onnx"))
output_key == WithSuffix(req.json.model_class, ".onnx")
DEFAULT_SHAPE == <<3, 224, 224>>
input_shape == Get(req.json, "input_shape", DEFAULT_SHAPE)
scheme == IF MINIO_SECURE THEN "https" ELSE "http"
\* urljoin(f"{scheme}://{MINIO_ENDPOINT}/", f"{BUCKET_OUTPUT}/{output_key}")
url == [scheme |-> scheme, endpoint |-> MINIO_ENDPOINT,
        path |-> Resolve(<<BUCKET_OUTPUT>> \o output_key, <<>>)]

NoModel == [cls |-> "-", weights |-> FALSE, eval |-> FALSE, input |-> <<>>]
NoResult == [status |-> "-", message |-> "-", onnx_path |-> NoKey,
             download_url |-> [scheme |-> "-", endpoint |-> "-", path |-> <<>>]]
NoResp == [statusCode |-> 0, error |-> NoExc, result |-> NoResult]
NoNorm == [called |-> FALSE, path |-> NoKey, before |-> EmptyMap,
           after |-> EmptyMap, raised |-> FALSE]
NoPrev == [resp |-> NoResp, keys |-> {}]

Step(name, outcome) == <<name, outcome>>
Ok(name) == Step(name, "ok")
Failed(name) == Step(name, "failed")

(***************************************************************************)
(* handle (lines 40-56) and execute (lines 62-136), one action per step.   *)
(***************************************************************************)
\* handle is called with an event; a repeated invocation repeats the event
Invoke ==
    /\ pc \in {"idle", "returned"}
    /\ run < MaxRuns
    /\ \E ev \in (IF run = 0 THEN Events ELSE {event}) : event' = ev
    /\ run' = run + 1
    /\ pc' = "handle"
    /\ prev' = IF run = 0 THEN NoPrev
               ELSE [resp |-> resp, keys |-> DOMAIN store.objects]
    /\ store0' = store
    /\ req' = Body("absent", NoObject)
    /\ exc' = NoExc
    /\ dargs' = EmptyMap
    /\ model' = NoModel
    /\ result' = NoResult
    /\ resp' = NoResp
    /\ trace' = <<>>
    /\ exportLog' = <<>>
    /\ norm' = NoNorm
    /\ calls' = <<>>
    /\ UNCHANGED <<env, store, files, dirs, argVars>>

\* lines 43-47: the body, and json.loads
ReadBody ==
    /\ pc = "handle"
    /\ IF event.kind \in {"absent", "empty"}
       THEN /\ exc' = Exc("ValueError", "Empty request body")
            /\ pc' = "respond"
            /\ req' = req
       ELSE IF event.kind = "not_json"
       THEN /\ exc' = Exc("JSONDecodeError", "Expecting value")
            /\ pc' = "respond"
            /\ req' = req
       ELSE /\ req' = event
            /\ pc' = "execute"
            /\ exc' = exc
    /\ UNCHANGED <<env, store, event, run, dargs, files, dirs, model, result, resp,
                   trace, exportLog, norm, calls, store0, prev, argVars>>

\* lines 63-67: the subscripts raise for a field that is absent
ReadFields ==
    /\ pc = "execute"
    /\ LET parsed == parse_dynamic_args(Get(req.json, "args", <<>>)) IN
       IF req.kind = "json_list"
       THEN /\ exc' = Exc("TypeError", "list indices must be integers")
            /\ pc' = "respond"
            /\ dargs' = dargs
       ELSE IF "python_path" \notin req.json.has
       THEN /\ exc' = Exc("KeyError", "python_path")
            /\ pc' = "respond"
            /\ dargs' = dargs
       ELSE IF "weights_path" \notin req.json.has
       THEN /\ exc' = Exc("KeyError", "weights_path")
            /\ pc' = "respond"
            /\ dargs' = dargs
       ELSE IF "model_class" \notin req.json.has
       THEN /\ exc' = Exc("KeyError", "model_class")
            /\ pc' = "respond"
            /\ dargs' = dargs
       ELSE IF ~parsed.ok
       THEN /\ exc' = Exc(parsed.exc, parsed.msg)
            /\ pc' = "respond"
            /\ dargs' = dargs
       ELSE /\ dargs' = parsed.val
            /\ pc' = "tmpdir"
            /\ exc' = exc
    /\ UNCHANGED <<env, store, event, run, req, files, dirs, model, result, resp,
                   trace, exportLog, norm, calls, store0, prev, argVars>>

\* line 69: the with statement is entered
EnterTmp ==
    /\ pc = "tmpdir"
    /\ dirs' = dirs \cup {TmpDir}
    /\ pc' = "connect"
    /\ UNCHANGED <<env, store, event, run, req, exc, dargs, files, model, result,
                   resp, trace, exportLog, norm, calls, store0, prev, argVars>>

\* lines 77-81
ConnectSwallowing ==
    /\ pc = "connect"
    /\ calls' = Append(calls, Call("list_buckets", "", NoKey))
    /\ trace' = Append(trace, IF env.reachable THEN Ok("connect") ELSE Failed("connect"))
    /\ pc' = "fetch_source"
    /\ UNCHANGED <<env, store, event, run, req, exc, dargs, files, dirs, model,
                   result, resp, exportLog, norm, store0, prev, argVars>>

Connect ==
    /\ pc = "connect"
    /\ calls' = Append(calls, Call("list_buckets", "", NoKey))
    /\ IF env.reachable
       THEN /\ trace' = Append(trace, Ok("connect"))
            /\ pc' = "fetch_source"
            /\ exc' = exc
       ELSE /\ trace' = Append(trace, Failed("connect"))
            /\ exc' = Exc("ConnectionError", "Unable to connect to MinIO")
            /\ pc' = "exit_tmp"
    /\ UNCHANGED <<env, store, event, run, req, dargs, files, dirs, model,
                   result, resp, exportLog, norm, store0, prev, argVars>>

\* lines 86-88 and 92-93
FetchSource ==
    /\ pc = "fetch_source"
    /\ calls' = Append(calls, Call("fget_object", BUCKET_MODELS, req.json.python_path))
    /\ IF HasObject(store, BUCKET_MODELS, req.json.python_path)
       THEN /\ files' = WriteFile(files, py_local,
                                  store.objects[<<BUCKET_MODELS, req.json.python_path>>])
            /\ trace' = Append(trace, Ok("fetch_source"))
            /\ pc' = "fetch_weights"
            /\ exc' = exc
       ELSE /\ trace' = Append(trace, Failed("fetch_source"))
            /\ exc' = Exc("FileNotFoundError", "Missing model or weights file")
            /\ pc' = "exit_tmp"
            /\ files' = files
    /\ UNCHANGED <<env, store, event, run, req, dargs, dirs, model, result, resp,
                   exportLog, norm, store0, prev, argVars>>

\* lines 90-93
FetchWeightsUnmapped ==
    /\ pc = "fetch_weights"
    /\ calls' = Append(calls, Call("fget_object", BUCKET_WEIGHTS, req.json.weights_path))
    /\ IF HasObject(store, BUCKET_WEIGHTS, req.json.weights_path)
       THEN /\ files' = WriteFile(files, weights_local,
                                  store.objects[<<BUCKET_WEIGHTS, req.json.weights_path>>])
            /\ trace' = Append(trace, Ok("fetch_weights"))
            /\ pc' = "load_class"
            /\ exc' = exc
       ELSE /\ trace' = Append(trace, Failed("fetch_weights"))
            /\ exc' = Exc("S3Error", "NoSuchKey")
            /\ pc' = "exit_tmp"
            /\ files' = files
    /\ UNCHANGED <<env, store, event, run, req, dargs, dirs, model, result, resp,
                   exportLog, norm, store0, prev, argVars>>

FetchWeights ==
    /\ pc = "fetch_weights"
    /\ calls' = Append(calls, Call("fget_object", BUCKET_WEIGHTS, req.json.weights_path))
    /\ IF HasObject(store, BUCKET_WEIGHTS, req.json.weights_path)
       THEN /\ files' = WriteFile(files, weights_local,
                                  store.objects[<<BUCKET_WEIGHTS, req.json.weights_path>>])
            /\ trace' = Append(trace, Ok("fetch_weights"))
            /\ pc' = "load_class"
            /\ exc' = exc
       ELSE /\ trace' = Append(trace, Failed("fetch_weights"))
            /\ exc' = Exc("FileNotFoundError", "Missing model or weights file")
            /\ pc' = "exit_tmp"
            /\ files' = files
    /\ UNCHANGED <<env, store, event, run, req, dargs, dirs, model, result, resp,
                   exportLog, norm, store0, prev, argVars>>

(***************************************************************************)
(* load_class_from_file (utils.py, lines 11-48): the exception it raises,  *)
(* or none.  A source file is a module whose names are those of TheModule. *)
(***************************************************************************)
load_class_error(fs, class_name, file_path, kwargs) ==
    IF ~Exists(fs, file_path)
    THEN Exc("FileNotFoundError", "File not found")
    ELSE IF fs[file_path].kind # "module"
    THEN Exc("SyntaxError", "exec_module")
    ELSE IF ~(Len(class_name) = 1 /\ class_name[1] \in DOMAIN TheModule)
    THEN Exc("AttributeError", "Class not found in module")
    ELSE IF ~TheModule[class_name[1]].callable
    THEN Exc("TypeError", "is not a valid class")
    ELSE IF ~(/\ DOMAIN kwargs \subseteq TheModule[class_name[1]].params
              /\ TheModule[class_name[1]].required \subseteq DOMAIN kwargs)
    THEN Exc("TypeError", "__init__() arguments")
    ELSE NoExc

\* line 98
LoadClass ==
    /\ pc = "load_class"
    /\ LET e == load_class_error(files, req.json.model_class, py_local, dargs) IN
       IF e = NoExc
       THEN /\ model' = [NoModel EXCEPT !.cls = req.json.model_class[1]]
            /\ trace' = Append(trace, Ok("load_class"))
            /\ pc' = "load_state"
            /\ exc' = exc
       ELSE /\ trace' = Append(trace, Failed("load_class"))
            /\ exc' = e
            /\ pc' = "exit_tmp"
            /\ model' = model
    /\ UNCHANGED <<env, store, event, run, req, dargs, files, dirs, result, resp,
                   exportLog, norm, calls, store0, prev, argVars>>

\* line 99: torch.load, then load_state_dict
LoadState ==
    /\ pc = "load_state"
    /\ IF ~(Exists(files, weights_local) /\ files[weights_local].kind = "weights")
       THEN /\ trace' = Append(trace, Failed("load_state"))
            /\ exc' = Exc("UnpicklingError", "torch.load")
            /\ pc' = "exit_tmp"
            /\ model' = model
       ELSE IF ~TheModule[model.cls].fits
       THEN /\ trace' = Append(trace, Failed("load_state"))
            /\ exc' = Exc("RuntimeError", "Error(s) in loading state_dict")
            /\ pc' = "exit_tmp"
            /\ model' = model
       ELSE /\ model' = [model EXCEPT !.weights = TRUE]
            /\ trace' = Append(trace, Ok("load_state"))
            /\ pc' = "to_device"
            /\ exc' = exc
    /\ UNCHANGED <<env, store, event, run, req, dargs, files, dirs, result, resp,
                   exportLog, norm, calls, store0, prev, argVars>>

\* line 100
ToDevice ==
    /\ pc = "to_device"
    /\ model' = [model EXCEPT !.eval = TRUE]
    /\ trace' = Append(trace, Ok("to_device"))
    /\ pc' = "dummy_input"
    /\ UNCHANGED <<env, store, event, run, req, exc, dargs, files, dirs, result,
                   resp, exportLog, norm, calls, store0, prev, argVars>>

\* line 102: torch.randn raises for a negative dimension
DummyInput ==
    /\ pc = "dummy_input"
    /\ IF \A i \in 1..Len(input_shape) : input_shape[i] >= 0
       THEN /\ model' = [model EXCEPT !.input = <<1>> \o input_shape]
            /\ trace' = Append(trace, Ok("dummy_input"))
            /\ pc' = "export_modern"
            /\ exc' = exc
       ELSE /\ trace' = Append(trace, Failed("dummy_input"))
            /\ exc' = Exc("RuntimeError", "Trying to create tensor with negative dimension")
            /\ pc' = "exit_tmp"
            /\ model' = model
    /\ UNCHANGED <<env, store, event, run, req, dargs, files, dirs, result, resp,
                   exportLog, norm, calls, store0, prev, argVars>>

(***************************************************************************)
(* export_onnx (lines 142-207), called on line 107: the modern exporter    *)
(* inside its try block, then the legacy exporter.                         *)
(***************************************************************************)
Normalisation(path, before, done) ==
    [called |-> TRUE, path |-> path, before |-> before, after |-> done.files,
     raised |-> done.raised]

\* lines 150-176 with the failure of exported.save outside the try block
ExportModernFatal ==
    /\ pc = "export_modern"
    /\ LET c == TheModule[model.cls]
           written == WriteGraph(files, onnx_local, model.cls, c.dynamoForm, run)
           done == ensure_single_file_onnx(written, onnx_local)
       IN
       IF ~env.hasDynamo
       THEN /\ pc' = "export_legacy"
            /\ UNCHANGED <<files, exportLog, norm, trace, exc>>
       ELSE IF c.dynamo = "export_fails"
       THEN /\ exportLog' = Append(exportLog, Failed("dynamo"))
            /\ pc' = "export_legacy"
            /\ UNCHANGED <<files, norm, trace, exc>>
       ELSE IF c.dynamo = "save_fails"
       THEN /\ files' = WriteFile(files, onnx_local, File("partial", model.cls, "-", run))
            /\ exportLog' = Append(exportLog, Failed("dynamo"))
            /\ trace' = Append(trace, Failed("export"))
            /\ exc' = Exc("OSError", "exported.save")
            /\ pc' = "exit_tmp"
            /\ norm' = norm
       ELSE /\ files' = done.files
            /\ norm' = Normalisation(onnx_local, written, done)
            /\ exportLog' = Append(exportLog, Ok("dynamo"))
            /\ trace' = Append(trace, Ok("export"))
            /\ pc' = "validate"
            /\ exc' = exc
    /\ UNCHANGED <<env, store, event, run, req, dargs, dirs, model, result, resp,
                   calls, store0, prev, argVars>>

\* lines 150-176
ExportModern ==
    /\ pc = "export_modern"
    /\ LET c == TheModule[model.cls]
           written == WriteGraph(files, onnx_local, model.cls, c.dynamoForm, run)
           done == ensure_single_file_onnx(written, onnx_local)
       IN
       IF ~env.hasDynamo
       THEN /\ pc' = "export_legacy"
            /\ UNCHANGED <<files, exportLog, norm, trace>>
       ELSE IF c.dynamo = "export_fails"
       THEN /\ exportLog' = Append(exportLog, Failed("dynamo"))
            /\ pc' = "export_legacy"
            /\ UNCHANGED <<files, norm, trace>>
       ELSE IF c.dynamo = "save_fails"
       THEN /\ files' = WriteFile(files, onnx_local, File("partial", model.cls, "-", run))
            /\ exportLog' = Append(exportLog, Failed("dynamo"))
            /\ pc' = "export_legacy"
            /\ UNCHANGED <<norm, trace>>
       ELSE IF done.raised
       THEN /\ files' = done.files
            /\ norm' = Normalisation(onnx_local, written, done)
            /\ exportLog' = Append(exportLog, Failed("dynamo"))
            /\ pc' = "export_legacy"
            /\ trace' = trace
       ELSE /\ files' = done.files
            /\ norm' = Normalisation(onnx_local, written, done)
            /\ exportLog' = Append(exportLog, Ok("dynamo"))
            /\ trace' = Append(trace, Ok("export"))
            /\ pc' = "validate"
    /\ UNCHANGED <<env, store, event, run, req, exc, dargs, dirs, model, result,
                   resp, calls, store0, prev, argVars>>

\* lines 179-207
ExportLegacy ==
    /\ pc = "export_legacy"
    /\ LET c == TheModule[model.cls]
           written == WriteGraph(files, onnx_local, model.cls, c.legacyForm, run)
           done == ensure_single_file_onnx(written, onnx_local)
       IN
       IF c.legacy = "throws"
       THEN /\ exportLog' = Append(exportLog, Failed("legacy"))
            /\ trace' = Append(trace, Failed("export"))
            /\ exc' = Exc("RuntimeError", "torch.onnx.export")
            /\ pc' = "exit_tmp"
            /\ UNCHANGED <<files, norm>>
       ELSE IF done.raised
       THEN /\ files' = done.files
            /\ norm' = Normalisation(onnx_local, written, done)
            /\ exportLog' = Append(exportLog, Ok("legacy"))
            /\ trace' = Append(trace, Failed("export"))
            /\ exc' = Exc("Exception", "ensure_single_file_onnx")
            /\ pc' = "exit_tmp"
       ELSE /\ files' = done.files
            /\ norm' = Normalisation(onnx_local, written, done)
            /\ exportLog' = Append(exportLog, Ok("legacy"))
            /\ trace' = Append(trace, Ok("export"))
            /\ pc' = "validate"
            /\ exc' = exc
    /\ UNCHANGED <<env, store, event, run, req, dargs, dirs, model, result, resp,
                   calls, store0, prev, argVars>>

\* lines 112-113 with the result of check_model ignored
ValidateLenient ==
    /\ pc = "validate"
    /\ trace' = Append(trace, IF onnx_load(files, onnx_local).ok
                                 /\ TheModule[files[onnx_local].cls].valid
                              THEN Ok("validate") ELSE Failed("validate"))
    /\ pc' = "ensure_bucket"
    /\ UNCHANGED <<env, store, event, run, req, exc, dargs, files, dirs, model,
                   result, resp, exportLog, norm, calls, store0, prev, argVars>>

\* lines 112-113: onnx.load, then onnx.checker.check_model
Validate ==
    /\ pc = "validate"
    /\ IF ~onnx_load(files, onnx_local).ok
       THEN /\ trace' = Append(trace, Failed("validate"))
            /\ exc' = Exc("FileNotFoundError", "onnx.load")
            /\ pc' = "exit_tmp"
       ELSE IF ~TheModule[files[onnx_local].cls].valid
       THEN /\ trace' = Append(trace, Failed("validate"))
            /\ exc' = Exc("ValidationError", "check_model")
            /\ pc' = "exit_tmp"
       ELSE /\ trace' = Append(trace, Ok("validate"))
            /\ pc' = "ensure_bucket"
            /\ exc' = exc
    /\ UNCHANGED <<env, store, event, run, req, dargs, files, dirs, model, result,
                   resp, exportLog, norm, calls, store0, prev, argVars>>

\* lines 120-121 without the test of bucket_exists
EnsureBucketAlways ==
    /\ pc = "ensure_bucket"
    /\ calls' = Append(calls, Call("make_bucket", BUCKET_OUTPUT, NoKey))
    /\ IF BUCKET_OUTPUT \in store.buckets
       THEN /\ trace' = Append(trace, Failed("ensure_bucket"))
            /\ exc' = Exc("S3Error", "BucketAlreadyOwnedByYou")
            /\ pc' = "exit_tmp"
            /\ store' = store
       ELSE IF env.policy = "no_create"
       THEN /\ trace' = Append(trace, Failed("ensure_bucket"))
            /\ exc' = Exc("S3Error", "AccessDenied")
            /\ pc' = "exit_tmp"
            /\ store' = store
       ELSE /\ store' = [store EXCEPT !.buckets = @ \cup {BUCKET_OUTPUT}]
            /\ trace' = Append(trace, Ok("ensure_bucket"))
            /\ pc' = "upload"
            /\ exc' = exc
    /\ UNCHANGED <<env, event, run, req, dargs, files, dirs, model, result, resp,
                   exportLog, norm, store0, prev, argVars>>

\* lines 120-121
EnsureBucket ==
    /\ pc = "ensure_bucket"
    /\ IF BUCKET_OUTPUT \in store.buckets
       THEN /\ calls' = Append(calls, Call("bucket_exists", BUCKET_OUTPUT, NoKey))
            /\ trace' = Append(trace, Ok("ensure_bucket"))
            /\ pc' = "upload"
            /\ UNCHANGED <<store, exc>>
       ELSE IF env.policy = "no_create"
       THEN /\ calls' = calls \o <<Call("bucket_exists", BUCKET_OUTPUT, NoKey),
                                   Call("make_bucket", BUCKET_OUTPUT, NoKey)>>
            /\ trace' = Append(trace, Failed("ensure_bucket"))
            /\ exc' = Exc("S3Error", "AccessDenied")
            /\ pc' = "exit_tmp"
            /\ store' = store
       ELSE /\ calls' = calls \o <<Call("bucket_exists", BUCKET_OUTPUT, NoKey),
                                   Call("make_bucket", BUCKET_OUTPUT, NoKey)>>
            /\ store' = [store EXCEPT !.buckets = @ \cup {BUCKET_OUTPUT}]
            /\ trace' = Append(trace, Ok("ensure_bucket"))
            /\ pc' = "upload"
            /\ exc' = exc
    /\ UNCHANGED <<env, event, run, req, dargs, files, dirs, model, result, resp,
                   exportLog, norm, store0, prev, argVars>>

\* line 122: the object under the key is replaced
Upload ==
    /\ pc = "upload"
    /\ calls' = Append(calls, Call("fput_object", BUCKET_OUTPUT, output_key))
    /\ IF env.policy = "no_put"
       THEN /\ trace' = Append(trace, Failed("upload"))
            /\ exc' = Exc("S3Error", "AccessDenied")
            /\ pc' = "exit_tmp"
            /\ store' = store
       ELSE /\ store' = [store EXCEPT !.objects =
                            (<<BUCKET_OUTPUT, output_key>> :> files[onnx_local]) @@ @]
            /\ trace' = Append(trace, Ok("upload"))
            /\ pc' = "build_result"
            /\ exc' = exc
    /\ UNCHANGED <<env, event, run, req, dargs, files, dirs, model, result, resp,
                   exportLog, norm, store0, prev, argVars>>

\* lines 128-136
BuildResult ==
    /\ pc = "build_result"
    /\ result' = [status |-> "success",
                  message |-> "Model exported and validated successfully.",
                  onnx_path |-> output_key, download_url |-> url]
    /\ trace' = Append(trace, Ok("result"))
    /\ pc' = "exit_tmp"
    /\ UNCHANGED <<env, store, event, run, req, exc, dargs, files, dirs, model,
                   resp, exportLog, norm, calls, store0, prev, argVars>>

\* line 69 with the directory removed only after line 136
ExitTmpOnSuccess ==
    /\ pc = "exit_tmp"
    /\ files' = IF exc = NoExc
                THEN [q \in {f \in DOMAIN files : ~Inside(f, TmpDir)} |-> files[q]]
                ELSE files
    /\ dirs' = IF exc = NoExc THEN dirs \ {TmpDir} ELSE dirs
    /\ pc' = "respond"
    /\ UNCHANGED <<env, store, event, run, req, exc, dargs, model, result, resp,
                   trace, exportLog, norm, calls, store0, prev, argVars>>

\* line 69: the with statement is left, by the return or by an exception, and
\* the directory is removed with all it holds
ExitTmp ==
    /\ pc = "exit_tmp"
    /\ files' = [q \in {f \in DOMAIN files : ~Inside(f, TmpDir)} |-> files[q]]
    /\ dirs' = dirs \ {TmpDir}
    /\ pc' = "respond"
    /\ UNCHANGED <<env, store, event, run, req, exc, dargs, model, result, resp,
                   trace, exportLog, norm, calls, store0, prev, argVars>>

\* lines 49-56: the response
Respond ==
    /\ pc = "respond"
    /\ resp' = IF exc = NoExc
               THEN [statusCode |-> 200, error |-> NoExc, result |-> result]
               ELSE IF exc.kind = "JSONDecodeError"
               THEN [statusCode |-> 400, error |-> Exc("Invalid JSON", exc.msg),
                     result |-> NoResult]
               ELSE [statusCode |-> 500, error |-> exc, result |-> NoResult]
    /\ pc' = "returned"
    /\ UNCHANGED <<env, store, event, run, req, exc, dargs, files, dirs, model,
                   result, trace, exportLog, norm, calls, store0, prev, argVars>>

(***************************************************************************)
(* The specifications.                                                     *)
(***************************************************************************)
Idle ==
    /\ event = Body("absent", NoObject)
    /\ run = 0
    /\ pc = "idle"
    /\ req = Body("absent", NoObject)
    /\ exc = NoExc
    /\ dargs = EmptyMap
    /\ files = EmptyMap
    /\ dirs = {}
    /\ model = NoModel
    /\ result = NoResult
    /\ resp = NoResp
    /\ trace = <<>>
    /\ exportLog = <<>>
    /\ norm = NoNorm
    /\ calls = <<>>
    /\ prev = NoPrev

Init ==
    /\ argstr = <<>>
    /\ argres = NotRun
    /\ env \in Envs
    /\ store \in InitialStores
    /\ store0 = store
    /\ Idle

Next ==
    \/ Invoke
    \/ ReadBody
    \/ ReadFields
    \/ EnterTmp
    \/ Connect
    \/ FetchSource
    \/ FetchWeights
    \/ LoadClass
    \/ LoadState
    \/ ToDevice
    \/ DummyInput
    \/ ExportModern
    \/ ExportLegacy
    \/ Validate
    \/ EnsureBucket
    \/ Upload
    \/ BuildResult
    \/ ExitTmp
    \/ Respond

Spec == Init /\ [][Next]_vars

\* parse_dynamic_args on every argument string of at most MaxLen characters
InitArgs ==
    /\ argstr \in Strings(MaxLen)
    /\ argres = NotRun
    /\ env = [reachable |-> TRUE, hasDynamo |-> TRUE, policy |-> "rw"]
    /\ store = Store(InputBuckets, InputObjects)
    /\ store0 = store
    /\ Idle

NextArgs == ParseArgs

SpecArgs == InitArgs /\ [][NextArgs]_vars

(***************************************************************************)
(* The properties.                                                         *)
(***************************************************************************)
Returned == pc = "returned"
Did(step) == \E i \in 1..Len(trace) : trace[i] = Ok(step)
Called(op) == \E i \in 1..Len(calls) : calls[i].op = op
StepOrder ==
    <<"connect", "fetch_source", "fetch_weights", "load_class", "load_state",
      "to_device", "dummy_input", "export", "validate", "ensure_bucket",
      "upload", "result">>
LastStep == IF trace = <<>> THEN Step("-", "-") ELSE trace[Len(trace)]
WellFormed ==
    /\ event.kind = "json"
    /\ RequiredFields \subseteq event.json.has
    /\ parse_dynamic_args(Get(event.json, "args", <<>>)).ok

\* C1: the steps of one execute invocation run in the order connectivity
\* check, fetch source, fetch weights, load class, load weight state, device
\* and evaluation mode, synthetic input, export, validation, ensure bucket,
\* upload, result, each only after the one before it succeeded; no fetch is
\* made before the connectivity check succeeded, and the output bucket is
\* neither created nor written before the validation succeeded.
C1_StepsInOrder ==
    /\ Len(trace) <= Len(StepOrder)
    /\ \A i \in 1..Len(trace) :
          /\ trace[i][1] = StepOrder[i]
          /\ i < Len(trace) => trace[i][2] = "ok"
    /\ Called("fget_object") => Did("connect")
    /\ (Called("make_bucket") \/ Called("fput_object")) => Did("validate")
    /\ store # store0 => Did("validate")

C1_Witness == Returned /\ resp.statusCode = 200 /\ Len(trace) = Len(StepOrder)

\* C2: a request whose JSON body parses and lacks python_path, weights_path or
\* model_class is answered with status 400.
C2_MissingFieldIs400 ==
    (Returned /\ event.kind = "json" /\ ~(RequiredFields \subseteq event.json.has))
        => resp.statusCode = 400

\* C3: an event whose body is empty or absent is answered with status 400 and
\* the malformed-JSON error.
C3_EmptyBodyIs400 ==
    (Returned /\ event.kind \in {"absent", "empty"})
        => (resp.statusCode = 400 /\ resp.error.kind = "Invalid JSON")

NeverLoaded ==
    /\ model = NoModel
    /\ exportLog = <<>>
    /\ \A i \in 1..Len(trace) : trace[i][1] \notin {"load_class", "load_state", "export"}
NoRetry == \A i, j \in 1..Len(calls) : i # j => calls[i] # calls[j]

\* C4: for a well-formed request, an unreachable endpoint gives status 500 with
\* a connection error and no fetch; a reachable storage without the weights key
\* gives status 500 with a not-found error; in both cases no storage call is
\* repeated and the model is neither loaded nor exported.
C4_StorageFailures ==
    (Returned /\ WellFormed) =>
        /\ ~env.reachable =>
              /\ resp.statusCode = 500
              /\ resp.error.kind = "ConnectionError"
              /\ calls = <<Call("list_buckets", "", NoKey)>>
              /\ NeverLoaded
        /\ (env.reachable /\ ~HasObject(store0, BUCKET_WEIGHTS, event.json.weights_path)) =>
              /\ resp.statusCode = 500
              /\ resp.error.kind = "FileNotFoundError"
              /\ NoRetry
              /\ NeverLoaded

C4_Witness ==
    /\ Returned
    /\ WellFormed
    /\ env.reachable
    /\ LastStep = Failed("fetch_weights")
    /\ resp.statusCode = 500

\* C5: export_onnx tries the modern exporter first when torch has it and the
\* legacy exporter second; a failure of the modern path, in the export or in
\* the save, always leads to the legacy exporter; the legacy exporter is not
\* run after the modern one succeeded; export_onnx raises exactly when the
\* legacy exporter was reached and threw, and the request then fails.
C5_ExporterFallback ==
    LET n == Len(exportLog)
        raised == \E i \in 1..Len(trace) : trace[i] = Failed("export")
    IN /\ n <= 2
       /\ \A i \in 1..n : exportLog[i][1] = "dynamo" => (i = 1 /\ env.hasDynamo)
       /\ \A i \in 1..n : exportLog[i][1] = "legacy" =>
              IF env.hasDynamo THEN i = 2 /\ exportLog[1] = Failed("dynamo") ELSE i = 1
       /\ (n >= 1 /\ exportLog[1] = Failed("dynamo") /\ pc # "export_legacy") => n = 2
       /\ (n >= 1 /\ exportLog[1] = Ok("dynamo")) => n = 1
       /\ raised <=> (n >= 1 /\ exportLog[n] = Failed("legacy"))
       /\ Did("export") <=> (n >= 1 /\ exportLog[n][2] = "ok")
       /\ (raised /\ Returned) => resp.statusCode = 500

C5_Witness ==
    /\ Returned
    /\ model.cls = "SaveErr"
    /\ exportLog = <<Failed("dynamo"), Ok("legacy")>>
    /\ resp.statusCode = 200

CompanionOf(path) == WithSuffix(path, ".data")

C7_TempFilesScoped ==
    /\ \A f \in DOMAIN files : Inside(f, TmpDir) /\ TmpDir \in dirs
    /\ Returned => (dirs = {} /\ DOMAIN files = {})

C7_Witness ==
    /\ Returned
    /\ resp.statusCode = 500
    /\ LastStep = Failed("upload")
    /\ norm.called
    /\ Exists(norm.before, CompanionOf(norm.path))

\* C8: when the same valid request is run again after a run that succeeded,
\* it succeeds again with the same response (the same onnx_path and
\* download_url), makes no make_bucket call, and replaces the object under
\* the same output key, adding no key to the storage.
C8_RerunOverwrites ==
    (Returned /\ run >= 2 /\ prev.resp.statusCode = 200) =>
        /\ resp.statusCode = 200
        /\ resp = prev.resp
        /\ resp.result.onnx_path = WithSuffix(event.json.model_class, ".onnx")
        /\ ~Called("make_bucket")
        /\ Called("fput_object")
        /\ DOMAIN store.objects = prev.keys
        /\ store.objects[<<BUCKET_OUTPUT, resp.result.onnx_path>>].by = run

C8_Witness ==
    /\ Returned
    /\ run = 2
    /\ prev.resp.statusCode = 200
    /\ resp.statusCode = 200

\* C9, for the argument strings the quote-aware split accepts:
\* parse_dynamic_args fails exactly when some token has no "="; otherwise it
\* returns one entry per distinct key, an integer for a value of digits only,
\* a float for any other value that parses as one, and the string otherwise.
C9_FailsOnlyWithoutEquals ==
    (argres # NotRun /\ shlex_split(argstr).ok) =>
        LET tokens == shlex_split(argstr).val
            keyOf(i) == strip(split_once(tokens[i]).key)
            valueOf(i) == strip(split_once(tokens[i]).value)
            last(k) == CHOOSE i \in 1..Len(tokens) :
                          keyOf(i) = k /\ \A j \in (i + 1)..Len(tokens) : keyOf(j) # k
        IN /\ ~argres.ok <=> \E i \in 1..Len(tokens) : ~Contains(tokens[i], EQ)
           /\ argres.ok =>
                 /\ DOMAIN argres.val = {keyOf(i) : i \in 1..Len(tokens)}
                 /\ \A k \in DOMAIN argres.val :
                       LET v == valueOf(last(k)) IN
                       argres.val[k].type =
                           IF isdigit(v) THEN "int"
                           ELSE IF float_of(v).ok THEN "float" ELSE "str"

ValidatedThenPut ==
    /\ Did("validate")
    /\ Did("upload")
    /\ HasObject(store, BUCKET_OUTPUT, resp.result.onnx_path)
    /\ store.objects[<<BUCKET_OUTPUT, resp.result.onnx_path>>].by = run

\* C10, as claimed: a 200 response is returned only after the graph passed the
\* validation and was put into the output bucket, and a response other than
\* 200 leaves the storage as the invocation found it.
C10_FailureLeavesStorageUntouched ==
    Returned =>
        /\ resp.statusCode = 200 => ValidatedThenPut
        /\ resp.statusCode # 200 => store = store0

\* C10, amended: a 200 response is returned only after the graph passed the
\* validation and was put into the output bucket; a response other than 200
\* means that the invocation wrote no object, and it created the output
\* bucket only if the validation succeeded and the upload then failed.
C10_FailureWritesNoObject ==
    Returned =>
        /\ resp.statusCode = 200 => ValidatedThenPut
        /\ resp.statusCode # 200 =>
              /\ store.objects = store0.objects
              /\ store.buckets # store0.buckets =>
                    /\ store.buckets = store0.buckets \cup {BUCKET_OUTPUT}
                    /\ Did("validate")
                    /\ LastStep = Failed("upload")

C10_Witness ==
    /\ Returned
    /\ resp.statusCode = 500
    /\ store.buckets # store0.buckets

====
